---- MODULE Spec2Model ----
(***************************************************************************)
(* NotionQM.py: NotionTaskManager, a batch job that queries a Notion       *)
(* database for the rows matching a frequency filter and sets a list of    *)
(* status columns of every row to a target status.                         *)
(*                                                                         *)
(* Python strings that the program parses (the comma separated settings)   *)
(* are sequences of one-character strings; None is the marker below.       *)
(* Python dicts are functions whose DOMAIN is the set of keys, so that a   *)
(* subscript on a missing key (KeyError) and dict.get are told apart.      *)
(***************************************************************************)
EXTENDS Naturals, Sequences, FiniteSets, TLC

VARIABLES env, pc, config, schemaCache, statusCache, query, response, idx,
          success, total, fetches, rejected, seen, hist, raised, ops, summary,
          error, exitCode

vars == <<env, pc, config, schemaCache, statusCache, query, response, idx,
          success, total, fetches, rejected, seen, hist, raised, ops, summary,
          error, exitCode>>

-----------------------------------------------------------------------------
(* Bounds of the model *)

\* most query responses (pages) of one run
MaxPages == 2
\* most records in one query response
MaxPageLen == 2

-----------------------------------------------------------------------------
(* Values *)

\* Python's None, as returned by os.getenv for an unset variable
None == <<"<None>">>

\* Python truthiness of a str / list / None
Truthy(v) == v # None /\ v # <<>>

\* "page_size": 100
PageSize == 100

\* the title property _get_page_title looks up (a fixed Chinese name)
TitleProperty == "TaskName"
\* the placeholder title (a fixed Chinese string meaning "untitled")
Placeholder == "Untitled"

NoError == [type |-> "none", what |-> "none"]

-----------------------------------------------------------------------------
(* _parse_list *)

IsSpace(c) == c = " "

RECURSIVE LStrip(_)
LStrip(s) ==
    IF s # <<>> /\ IsSpace(Head(s)) THEN LStrip(Tail(s)) ELSE s

RECURSIVE RStrip(_)
RStrip(s) ==
    IF s # <<>> /\ IsSpace(s[Len(s)]) THEN RStrip(SubSeq(s, 1, Len(s) - 1)) ELSE s

\* str.strip()
Strip(s) == RStrip(LStrip(s))

\* index of the first "," of s, 0 when there is none
RECURSIVE FirstComma(_, _)
FirstComma(s, i) ==
    IF i > Len(s) THEN 0
    ELSE IF s[i] = "," THEN i ELSE FirstComma(s, i + 1)

\* str.split(","): never empty, "".split(",") is [""]
RECURSIVE Split(_)
Split(s) ==
    LET k == FirstComma(s, 1) IN
    IF k = 0 THEN <<s>>
    ELSE <<SubSeq(s, 1, k - 1)>> \o Split(SubSeq(s, k + 1, Len(s)))

RECURSIVE StripNonEmpty(_)
StripNonEmpty(parts) ==
    IF parts = <<>> THEN <<>>
    ELSE (IF Strip(Head(parts)) # <<>> THEN <<Strip(Head(parts))>> ELSE <<>>)
         \o StripNonEmpty(Tail(parts))

\* [v.strip() for v in (value or "").split(",") if v.strip()]
ParseList(value) ==
    StripNonEmpty(Split(IF Truthy(value) THEN value ELSE <<>>))

-----------------------------------------------------------------------------
(* _load_config *)

\* keys of required_fields, in the dict's order
RequiredFields ==
    <<"NOTION_API_KEY", "NOTION_DATABASE_ID", "FREQUENCY_STATUS",
      "STATUS_COLUMNS", "TARGET_STATUS">>

\* required_fields[k]: the description reported for a missing key
RequiredMessage(k) == <<"required", k>>

\* the config dict built from the environment
BuildConfig(e) ==
    [FREQUENCY_STATUS   |-> ParseList(e.FREQUENCY_STATUS),
     STATUS_COLUMNS     |-> ParseList(e.STATUS_COLUMNS),
     TARGET_STATUS      |-> e.TARGET_STATUS,
     NOTION_API_KEY     |-> e.NOTION_API_KEY,
     NOTION_DATABASE_ID |-> e.NOTION_DATABASE_ID,
     TIME_COLUMN        |-> e.TIME_COLUMN,
     FREQUENCY_NAME     |-> e.FREQUENCY_NAME]

RECURSIVE MissingFrom(_, _)
MissingFrom(cfg, keys) ==
    IF keys = <<>> THEN <<>>
    ELSE (IF ~Truthy(cfg[Head(keys)]) THEN <<Head(keys)>> ELSE <<>>)
         \o MissingFrom(cfg, Tail(keys))

\* mutant: stops at the first missing key
FirstMissing(cfg) ==
    LET m == MissingFrom(cfg, RequiredFields) IN
    IF m = <<>> THEN <<>> ELSE <<Head(m)>>

\* missing = [k for k, v in required_fields.items() if not config.get(k)]
Missing(cfg) == MissingFrom(cfg, RequiredFields)

\* the lines of "\n".join([required_fields[k] for k in missing])
MissingMessage(missing) == [i \in 1..Len(missing) |-> RequiredMessage(missing[i])]

\* _load_config: the config, or the ValueError it raises
LoadConfig(e) ==
    LET cfg == BuildConfig(e)
        missing == Missing(cfg) IN
    IF missing # <<>>
    THEN [ok |-> FALSE,
          err |-> [type |-> "ValueError", what |-> "missing_config",
                   lines |-> MissingMessage(missing)]]
    ELSE [ok |-> TRUE, val |-> cfg]

-----------------------------------------------------------------------------
(* dict helpers *)

Range(f) == {f[x] : x \in DOMAIN f}

\* the empty dict {}
EmptyDict == [x \in {} |-> x]

HasKey(d, k) == k \in DOMAIN d

\* d.get(k, default)
GetOr(d, k, default) == IF HasKey(d, k) THEN d[k] ELSE default

KeyError(k) == [type |-> "KeyError", what |-> "key", key |-> k]

-----------------------------------------------------------------------------
(* _build_frequency_filter *)

\* filter_type_map, with its keys in the dict's order
SupportedTypes == <<"rich_text", "select", "multi_select">>

FilterTypeMap ==
    [t \in Range(SupportedTypes) |->
        [type |-> t,
         operator |-> IF t = "select" THEN "equals" ELSE "contains"]]

\* value_mapper: lambda x: x
ValueMapper(x) == x

\* one pass of the loop body, lines 94-101
FilterCondition(name, propType, status) ==
    LET m == FilterTypeMap[propType]
        generic == ("property" :> name)
                   @@ (m.type :> (m.operator :> ValueMapper(status)))
    IN IF propType = "multi_select"
       THEN [generic EXCEPT !["multi_select"]["contains"] = status]
       ELSE generic

\* mutant: an OR wrapper around a single condition as well
WrapAlways(filters) == [or |-> filters]

\* return {"or": filters} if len(filters) > 1 else filters[0]
WrapFilters(filters) ==
    IF Len(filters) > 1 THEN [or |-> filters] ELSE filters[1]

\* _build_frequency_filter over the cached schema
BuildFrequencyFilter(schema, cfg) ==
    LET name == cfg.FREQUENCY_NAME IN
    IF ~HasKey(schema.properties, name)
    THEN [ok |-> FALSE, err |-> KeyError(name)]
    ELSE
    LET propType == schema.properties[name].type IN
    IF propType \notin DOMAIN FilterTypeMap
    THEN [ok |-> FALSE,
          err |-> [type |-> "ValueError", what |-> "unsupported_type",
                   prop_type |-> propType, supported |-> SupportedTypes]]
    ELSE
    LET values == cfg.FREQUENCY_STATUS
        filters == [i \in 1..Len(values) |->
                       FilterCondition(name, propType, values[i])]
    IN IF filters = <<>>
       THEN [ok |-> FALSE, err |-> [type |-> "IndexError", what |-> "filters[0]"]]
       ELSE [ok |-> TRUE, val |-> WrapFilters(filters)]

-----------------------------------------------------------------------------
(* _get_status_id, _get_page_title, _current_timestamp, _prepare_update_data *)

\* index of the first option named target at or after i, 0 when there is none
RECURSIVE FirstOption(_, _, _)
FirstOption(options, target, i) ==
    IF i > Len(options) THEN 0
    ELSE IF options[i].name = target THEN i
    ELSE FirstOption(options, target, i + 1)

\* mutant: the first option stands in for a target that is not found
GetStatusIdFallback(schema, cfg, column) ==
    IF ~HasKey(schema.properties, column)
    THEN [ok |-> FALSE, err |-> KeyError(column)]
    ELSE
    LET options == schema.properties[column].status.options
        k == FirstOption(options, cfg.TARGET_STATUS, 1)
    IN [ok |-> TRUE, val |-> options[IF k = 0 THEN 1 ELSE k].id]

\* _get_status_id(column) over the cached schema
GetStatusId(schema, cfg, column) ==
    IF ~HasKey(schema.properties, column)
    THEN [ok |-> FALSE, err |-> KeyError(column)]
    ELSE IF ~HasKey(schema.properties[column], "status")
    THEN [ok |-> FALSE, err |-> KeyError(<<"status">>)]
    ELSE
    LET options == schema.properties[column].status.options
        k == FirstOption(options, cfg.TARGET_STATUS, 1)
    IN IF k = 0
       THEN [ok |-> FALSE,
             err |-> [type |-> "ValueError", what |-> "status_not_found",
                      column |-> column, target |-> cfg.TARGET_STATUS]]
       ELSE [ok |-> TRUE, val |-> options[k].id]

\* _get_page_title
GetPageTitle(page) ==
    LET title_prop == GetOr(page.properties, TitleProperty, EmptyDict)
        title == GetOr(title_prop, "title", <<EmptyDict>>)
    IN IF Len(title) = 0
       THEN [ok |-> FALSE, err |-> [type |-> "IndexError", what |-> "title[0]"]]
       ELSE [ok |-> TRUE, val |-> GetOr(title[1], "plain_text", Placeholder)]

\* _current_timestamp: the instant of the call is not modelled
CurrentTimestamp == [start |-> "now", time_zone |-> "Etc/GMT"]

\* index of the first column whose status id cannot be resolved, 0 if none
RECURSIVE FirstUnresolved(_, _, _)
FirstUnresolved(schema, cfg, i) ==
    IF i > Len(cfg.STATUS_COLUMNS) THEN 0
    ELSE IF ~GetStatusId(schema, cfg, cfg.STATUS_COLUMNS[i]).ok THEN i
    ELSE FirstUnresolved(schema, cfg, i + 1)

\* the properties of the update: lines 107-115
UpdateProperties(schema, cfg) ==
    LET statuses == [col \in Range(cfg.STATUS_COLUMNS) |->
                        [status |-> [id |-> GetStatusId(schema, cfg, col).val]]]
    IN IF Truthy(cfg.TIME_COLUMN)
       THEN (cfg.TIME_COLUMN :> [date |-> CurrentTimestamp]) @@ statuses
       ELSE statuses

\* _prepare_update_data(page)
PrepareUpdateData(schema, cfg, page) ==
    LET bad == FirstUnresolved(schema, cfg, 1) IN
    IF bad # 0
    THEN [ok |-> FALSE,
          err |-> GetStatusId(schema, cfg, cfg.STATUS_COLUMNS[bad]).err]
    ELSE
    LET title == GetPageTitle(page) IN
    IF ~title.ok THEN [ok |-> FALSE, err |-> title.err]
    ELSE [ok |-> TRUE,
          val |-> [page_id |-> page.id,
                   properties |-> UpdateProperties(schema, cfg),
                   metadata |-> [title |-> title.val,
                                 url |-> GetOr(page, "url", "")]]]

-----------------------------------------------------------------------------
(* The environment and the remote side *)

\* values of the environment variables (os.getenv), None when unset
EnvApiKey == {None, <<>>, <<"k">>}
EnvDatabaseId == {None, <<"d">>}
EnvFrequencyStatus == {None, <<" ", ",">>, <<"a">>, <<"a", ",", " ", "b">>}
EnvStatusColumns == {None, <<",">>, <<"s">>, <<"s", ",", "t">>}
EnvTargetStatus == {None, <<>>, <<"D">>}
EnvTimeColumn == {None, <<"T">>}
EnvFrequencyName == {None, <<"F">>}

Envs ==
    [NOTION_API_KEY : EnvApiKey, NOTION_DATABASE_ID : EnvDatabaseId,
     FREQUENCY_STATUS : EnvFrequencyStatus, STATUS_COLUMNS : EnvStatusColumns,
     TARGET_STATUS : EnvTargetStatus, TIME_COLUMN : EnvTimeColumn,
     FREQUENCY_NAME : EnvFrequencyName]

\* the environments of the runs followed through the pagination loop: two
\* complete configurations (one value, one column, no timestamp column; two
\* values, two columns, a timestamp column), one without FREQUENCY_NAME,
\* and two that lack required settings
RunEnvs ==
    LET full == [NOTION_API_KEY |-> <<"k">>, NOTION_DATABASE_ID |-> <<"d">>,
                 FREQUENCY_STATUS |-> <<"a", ",", " ", "b">>,
                 STATUS_COLUMNS |-> <<"s", ",", "t">>,
                 TARGET_STATUS |-> <<"D">>, TIME_COLUMN |-> <<"T">>,
                 FREQUENCY_NAME |-> <<"F">>]
        small == [full EXCEPT !.FREQUENCY_STATUS = <<"a">>,
                              !.STATUS_COLUMNS = <<"s">>,
                              !.TIME_COLUMN = None]
    IN {full, small,
        [small EXCEPT !.FREQUENCY_NAME = None],
        [full EXCEPT !.NOTION_API_KEY = None],
        [small EXCEPT !.STATUS_COLUMNS = <<",">>, !.TARGET_STATUS = <<>>]}

\* a status property of the remote schema, with or without the option "D"
StatusField(col, hasTarget) ==
    [type |-> "status",
     status |-> [options |->
        <<[name |-> <<"O">>, id |-> <<col, "O">>]>>
        \o (IF hasTarget THEN <<[name |-> <<"D">>, id |-> <<col, "D">>]>>
            ELSE <<>>)]]

FrequencyFieldTypes == {"rich_text", "select", "multi_select", "number"}

\* what databases.retrieve can return: the frequency property "F" of some
\* type, the column "s" (missing, or a status with or without the option "D")
\* and the status column "t" (with or without the option "D")
SchemaOf(ftype, sKind, tHas) ==
    [properties |->
        (<<"F">> :> [type |-> ftype])
        @@ (<<"t">> :> StatusField("t", tHas))
        @@ (IF sKind = "absent" THEN EmptyDict
            ELSE (<<"s">> :> StatusField("s", sKind = "has")))]

Schemas ==
    {SchemaOf(ft, sk, th) : ft \in FrequencyFieldTypes,
                            sk \in {"has", "lacks", "absent"}, th \in BOOLEAN}

\* the shapes of the title property of a record
TitleKinds == {"absent", "empty_dict", "empty_list", "text"}

PageProperties(kind) ==
    CASE kind = "absent"     -> EmptyDict
      [] kind = "empty_dict" -> (TitleProperty :> EmptyDict)
      [] kind = "empty_list" -> (TitleProperty :> [title |-> <<>>])
      [] kind = "text"       -> (TitleProperty :> [title |-> <<[plain_text |-> "Task"]>>])

\* the i-th record of the n-th response
Record(n, i, kind) ==
    [id |-> <<n, i>>, url |-> <<"url", n, i>>, properties |-> PageProperties(kind)]

\* the opaque cursor the remote hands out with the n-th response
Cursor(n) == <<"cursor", n>>

\* the responses databases.query can give to the n-th query
Responses(n) ==
    {[results |-> [i \in 1..len |-> Record(n, i, kinds[i])],
      has_more |-> more.has_more, next_cursor |-> more.next_cursor] :
        len \in 0..MaxPageLen, kinds \in [1..MaxPageLen -> TitleKinds],
        more \in {[has_more |-> FALSE, next_cursor |-> None]}
                 \cup (IF n < MaxPages
                       THEN {[has_more |-> TRUE, next_cursor |-> Cursor(n)]}
                       ELSE {})}

\* what pages.update can do: succeed, raise APIResponseError, or raise
\* something else (a timeout of the HTTP client)
UpdateOutcomes == {"ok", "APIResponseError", "TimeoutException"}

-----------------------------------------------------------------------------
(* The run: __main__, __init__ and batch_process_tasks *)

NoSummary == [logged |-> FALSE]

InitWith(envs) ==
    /\ env \in envs
    /\ pc = "start"
    /\ config = EmptyDict
    /\ schemaCache = <<>>
    /\ statusCache = EmptyDict
    /\ query = EmptyDict
    /\ response = EmptyDict
    /\ idx = 0
    /\ success = 0
    /\ total = 0
    /\ fetches = 0
    /\ rejected = 0
    /\ seen = <<>>
    /\ hist = <<>>
    /\ raised = {}
    /\ ops = <<>>
    /\ summary = NoSummary
    /\ error = NoError
    /\ exitCode = <<>>

\* lines 168-170 and 197-199: the error is logged and re-raised, then
\* logged by __main__, which exits with code 1
MainFailed(e) ==
    /\ pc' = "exited"
    /\ error' = e
    /\ exitCode' = <<1>>

\* manager = NotionTaskManager()
Construct ==
    /\ pc = "start"
    /\ LET r == LoadConfig(env) IN
       IF r.ok
       THEN /\ config' = r.val
            /\ pc' = "constructed"
            /\ UNCHANGED <<raised, error, exitCode>>
       ELSE /\ MainFailed(r.err)
            /\ raised' = raised \cup {"config"}
            /\ UNCHANGED config
    /\ UNCHANGED <<env, schemaCache, statusCache, query, response, idx, success,
                   total, fetches, rejected, seen, hist, ops, summary>>

\* lines 140-144: the query dict
NewQuery(cfg, filter) ==
    [database_id |-> cfg.NOTION_DATABASE_ID, filter |-> filter,
     page_size |-> PageSize]

\* batch_process_tasks up to the loop: the schema is retrieved (and cached)
\* by _build_frequency_filter, the query is built, the counters are zeroed
BuildQuery ==
    /\ pc = "constructed"
    /\ ops' = Append(ops, [op |-> "retrieve", database_id |-> config.NOTION_DATABASE_ID])
    /\ \/ /\ MainFailed([type |-> "APIResponseError", what |-> "retrieve"])
          /\ raised' = raised \cup {"retrieve"}
          /\ UNCHANGED <<schemaCache, query, success, total>>
       \/ \E schema \in Schemas :
             LET f == BuildFrequencyFilter(schema, config) IN
             /\ schemaCache' = <<schema>>
             /\ IF f.ok
                THEN /\ query' = NewQuery(config, f.val)
                     /\ success' = 0
                     /\ total' = 0
                     /\ pc' = "fetching"
                     /\ UNCHANGED <<raised, error, exitCode>>
                ELSE /\ MainFailed(f.err)
                     /\ raised' = raised \cup {"filter"}
                     /\ UNCHANGED <<query, success, total>>
    /\ UNCHANGED <<env, config, statusCache, response, idx, fetches, rejected,
                   seen, hist, summary>>

\* mutant: the count of the last page replaces the running total
LastPageTotal(t, pages) == Len(pages)

\* total += len(pages)
NewTotal(t, pages) == t + Len(pages)

\* response = self.notion.databases.query(**query); total += len(pages)
Fetch ==
    /\ pc = "fetching"
    /\ fetches < MaxPages
    /\ fetches' = fetches + 1
    /\ ops' = Append(ops, [op |-> "query", args |-> query])
    /\ \/ /\ MainFailed([type |-> "APIResponseError", what |-> "query"])
          /\ raised' = raised \cup {"query"}
          /\ UNCHANGED <<response, total, idx, seen, hist>>
       \/ \E r \in Responses(fetches + 1) :
             LET pages == GetOr(r, "results", <<>>) IN
             /\ response' = r
             /\ total' = NewTotal(total, pages)
             /\ seen' = seen \o [i \in 1..Len(pages) |-> pages[i].id]
             /\ hist' = Append(hist, [len |-> Len(pages), has_more |-> r.has_more,
                                      next_cursor |-> r.next_cursor])
             /\ idx' = 1
             /\ pc' = "draining"
             /\ UNCHANGED <<raised, error, exitCode>>
    /\ UNCHANGED <<env, config, schemaCache, statusCache, query, success,
                   rejected, summary>>

\* mutant: the handler catches nothing
CatchesNothing(exc) == FALSE

\* mutant: the handler catches every exception
CatchesAll(exc) == TRUE

\* except APIResponseError (line 159)
UpdateHandlerCatches(exc) == exc = "APIResponseError"

\* the status ids _get_status_id has returned so far (lru_cache): the
\* columns before the first unresolved one
StatusCacheAfter(schema, cfg, cache) ==
    LET bad == FirstUnresolved(schema, cfg, 1)
        last == IF bad = 0 THEN Len(cfg.STATUS_COLUMNS) ELSE bad - 1
        cols == {cfg.STATUS_COLUMNS[i] : i \in 1..last}
    IN [c \in cols \cup DOMAIN cache |->
           IF c \in DOMAIN cache THEN cache[c]
           ELSE GetStatusId(schema, cfg, c).val]

\* mutant: every other record is skipped
SkipOne(i) == i + 2

\* the for loop moves to the next record of the page
NextIndex(i) == i + 1

\* one pass of "for page in pages": lines 153-160
ProcessRecord ==
    /\ pc = "draining"
    /\ idx <= Len(response.results)
    /\ LET page == response.results[idx]
           u == PrepareUpdateData(schemaCache[1], config, page) IN
       /\ statusCache' = StatusCacheAfter(schemaCache[1], config, statusCache)
       /\ IF ~u.ok
          THEN /\ MainFailed(u.err)
               /\ raised' = raised \cup {"prepare"}
               /\ UNCHANGED <<idx, success, rejected, ops>>
          ELSE \E outcome \in UpdateOutcomes :
               /\ ops' = Append(ops, [op |-> "update", page_id |-> u.val.page_id,
                                      properties |-> u.val.properties])
               /\ rejected' = IF outcome = "APIResponseError"
                              THEN rejected + 1 ELSE rejected
               /\ raised' = IF outcome = "ok" THEN raised
                            ELSE IF outcome = "APIResponseError"
                            THEN raised \cup {"update_rejected"}
                            ELSE raised \cup {"update_failed"}
               /\ IF outcome = "ok"
                  THEN /\ success' = success + 1
                       /\ idx' = NextIndex(idx)
                       /\ UNCHANGED <<pc, error, exitCode>>
                  ELSE IF UpdateHandlerCatches(outcome)
                  THEN /\ idx' = NextIndex(idx)
                       /\ UNCHANGED <<pc, success, error, exitCode>>
                  ELSE /\ MainFailed([type |-> outcome, what |-> "update"])
                       /\ UNCHANGED <<idx, success>>
    /\ UNCHANGED <<env, config, schemaCache, query, response, total, fetches,
                   seen, hist, summary>>

\* response.get("has_more")
HasMore(r) == GetOr(r, "has_more", FALSE)

\* mutant: the cursor is not carried into the query
DropCursor(q, r) == q

\* query["start_cursor"] = response["next_cursor"]
WithCursor(q, r) == ("start_cursor" :> r.next_cursor) @@ q

\* lines 162-166: after the page, leave the loop and log the summary (the
\* process then ends with code 0), or carry the cursor into the next query
EndPage ==
    /\ pc = "draining"
    /\ idx > Len(response.results)
    /\ IF ~HasMore(response)
       THEN /\ summary' = [logged |-> TRUE, total |-> total, success |-> success,
                           failed |-> total - success]
            /\ pc' = "exited"
            /\ exitCode' = <<0>>
            /\ UNCHANGED query
       ELSE /\ query' = WithCursor(query, response)
            /\ pc' = "fetching"
            /\ UNCHANGED <<summary, exitCode>>
    /\ UNCHANGED <<env, config, schemaCache, statusCache, response, idx, success,
                   total, fetches, rejected, seen, hist, raised, ops, error>>

Next == Construct \/ BuildQuery \/ Fetch \/ ProcessRecord \/ EndPage

\* the whole program
Init == InitWith(RunEnvs)

Spec == Init /\ [][Next]_vars

\* construction and the set-up of batch_process_tasks, up to the first
\* query, over every environment
SetupInit == InitWith(Envs)

SetupNext == Construct \/ BuildQuery

SetupSpec == SetupInit /\ [][SetupNext]_vars

-----------------------------------------------------------------------------
(* Properties *)

IsUpdate(o) == o.op = "update"
IsQuery(o) == o.op = "query"

\* the remote operations of each kind issued so far, in order
UpdateOps == SelectSeq(ops, IsUpdate)
QueryOps == SelectSeq(ops, IsQuery)

\* the ids of the records whose update was attempted, in order
UpdateIds == [i \in 1..Len(UpdateOps) |-> UpdateOps[i].page_id]

RECURSIVE SumLen(_)
SumLen(h) == IF h = <<>> THEN 0 ELSE Head(h).len + SumLen(Tail(h))

\* C1: an update rejected by the remote (APIResponseError) does not end the
\* run and does not count as a success: the loop moves to the next record;
\* when the summary is logged every record received has had its update
\* attempt and the failure tally equals the number of rejected updates.
C1_RejectedUpdateDoesNotAbort ==
    /\ [][rejected' = rejected + 1 =>
            /\ pc' = "draining"
            /\ idx' = idx + 1
            /\ success' = success
            /\ exitCode' = <<>>]_vars
    /\ [](summary.logged =>
            /\ summary.failed = rejected
            /\ summary.total - summary.success = rejected
            /\ UpdateIds = seen)

\* two of three records were rejected and the run still reached its summary
\* on the second page
C1_Witness ==
    /\ summary.logged
    /\ fetches = 2
    /\ Len(seen) = 3
    /\ rejected = 2
    /\ success = 1

\* C2: when the summary is logged, the responses received are k >= 1 pages
\* of which exactly the last has has_more false, exactly k queries were
\* issued, and total is the sum of the page lengths.
C2_FetchesAndTotal ==
    /\ \A i \in 1..(Len(hist) - 1) : hist[i].has_more
    /\ summary.logged =>
          /\ Len(hist) >= 1
          /\ ~hist[Len(hist)].has_more
          /\ fetches = Len(hist)
          /\ Len(QueryOps) = Len(hist)
          /\ total = SumLen(hist)
          /\ summary.total = SumLen(hist)

\* a first page of two records with has_more, a last page of one
C2_Witness ==
    /\ summary.logged
    /\ Len(hist) = 2
    /\ hist[1].len = 2
    /\ hist[2].len = 1
    /\ summary.total = 3

\* the title property of the record is absent, or present but empty
TitleAbsentOrEmpty(page) ==
    \/ ~HasKey(page.properties, TitleProperty)
    \/ ~HasKey(page.properties[TitleProperty], "title")
    \/ page.properties[TitleProperty].title = <<>>

\* C3: for every record received whose title property is absent or empty
\* (an empty title list included) _get_page_title returns the placeholder,
\* and no run ends on the title extraction.
C3_TitleNeverFails ==
    /\ pc = "draining" =>
          \A i \in 1..Len(response.results) :
             TitleAbsentOrEmpty(response.results[i]) =>
                /\ GetPageTitle(response.results[i]).ok
                /\ GetPageTitle(response.results[i]).val = Placeholder
    /\ ~(error.type = "IndexError" /\ error.what = "title[0]")

\* the configured status columns that are status properties of the cached
\* schema without an option named TARGET_STATUS, by position
LackingColumns ==
    IF schemaCache = <<>> \/ pc = "start" THEN {}
    ELSE {i \in 1..Len(config.STATUS_COLUMNS) :
            LET col == config.STATUS_COLUMNS[i]
                props == schemaCache[1].properties IN
            /\ HasKey(props, col)
            /\ HasKey(props[col], "status")
            /\ \A k \in 1..Len(props[col].status.options) :
                  props[col].status.options[k].name # config.TARGET_STATUS}

\* every configured status column is a property of the cached schema
AllColumnsInSchema ==
    \A i \in 1..Len(config.STATUS_COLUMNS) :
       HasKey(schemaCache[1].properties, config.STATUS_COLUMNS[i])

MissingSettings(e) ==
    {k \in {"NOTION_API_KEY", "NOTION_DATABASE_ID", "TARGET_STATUS"} :
        e[k] = None \/ e[k] = <<>>}
    \cup {k \in {"FREQUENCY_STATUS", "STATUS_COLUMNS"} :
            e[k] = None \/ \A i \in 1..Len(e[k]) : e[k][i] \in {" ", ","}}

\* C5: when a required setting is absent or empty, construction raises
\* before any remote operation, and the error has one line for every missing
\* setting.
C5_MissingConfigRaisesFirst ==
    (pc # "start" /\ MissingSettings(env) # {}) =>
       /\ pc = "exited"
       /\ exitCode = <<1>>
       /\ ops = <<>>
       /\ config = EmptyDict
       /\ error.type = "ValueError"
       /\ error.what = "missing_config"
       /\ Len(error.lines) = Cardinality(MissingSettings(env))
       /\ Range(error.lines) = {RequiredMessage(k) : k \in MissingSettings(env)}

\* three settings are missing, one of them a list of nothing but a comma
C5_Witness ==
    /\ pc = "exited"
    /\ env.STATUS_COLUMNS = <<",">>
    /\ MissingSettings(env) = {"NOTION_API_KEY", "STATUS_COLUMNS", "TARGET_STATUS"}
    /\ error.what = "missing_config"

\* the exceptions that are not handled per record
FatalKinds == {"config", "retrieve", "filter", "query", "prepare", "update_failed"}

\* C6: the exit code is 0 exactly when the loop ended on has_more false and
\* the summary was logged, whatever number of updates was rejected; it is 1
\* exactly when the configuration is invalid or an exception other than a
\* rejected update was raised, and then no remote operation follows.
C6_ExitCode ==
    /\ [](/\ exitCode \in {<<>>, <<0>>, <<1>>}
          /\ (exitCode # <<>>) <=> (pc = "exited")
          /\ (exitCode = <<0>>) <=> summary.logged
          /\ summary.logged =>
                (raised \subseteq {"update_rejected"} /\ ~hist[Len(hist)].has_more)
          /\ (exitCode = <<1>>) <=> (raised \cap FatalKinds # {})
          /\ (exitCode = <<1>>) <=> (error # NoError))
    /\ [][raised \cap FatalKinds # {} => ops' = ops]_vars

\* every update of a run of three records was rejected and the exit code is 0
C6_Witness ==
    /\ exitCode = <<0>>
    /\ summary.logged
    /\ rejected = 3
    /\ success = 0
    /\ summary.failed = 3

\* C7: with the five required settings set and the frequency field name or
\* the timestamp field name unset, the run does not fail for lack of the
\* optional setting.
C7_OptionalSettings ==
    (MissingSettings(env) = {}
        /\ (env.FREQUENCY_NAME = None \/ env.TIME_COLUMN = None))
    => /\ pc # "start" => config # EmptyDict
       /\ ~(error.type = "KeyError" /\ error.key = None)
       /\ \A i \in 1..Len(UpdateOps) :
             ~Truthy(config.TIME_COLUMN) =>
                \A k \in DOMAIN UpdateOps[i].properties :
                   ~HasKey(UpdateOps[i].properties[k], "date")

\* the filter the configuration and the schema call for
ExpectedCondition(name, t, v) ==
    CASE t = "rich_text"    -> [property |-> name, rich_text |-> [contains |-> v]]
      [] t = "select"       -> [property |-> name, select |-> [equals |-> v]]
      [] t = "multi_select" -> [property |-> name, multi_select |-> [contains |-> v]]

ExpectedFilter(name, t, values) ==
    IF Len(values) = 1 THEN ExpectedCondition(name, t, values[1])
    ELSE [or |-> [i \in 1..Len(values) |-> ExpectedCondition(name, t, values[i])]]

\* C8: for a frequency field of a supported type the filter of the query is
\* one condition per configured value, in order, under "or" when there are
\* several and bare when there is one; for any other type the run ends on
\* the error naming the type and the supported types.
C8_FrequencyFilter ==
    (schemaCache # <<>> /\ HasKey(schemaCache[1].properties, config.FREQUENCY_NAME)) =>
       LET t == schemaCache[1].properties[config.FREQUENCY_NAME].type IN
       IF t \in {"rich_text", "select", "multi_select"}
       THEN /\ pc = "fetching"
            /\ query.filter = ExpectedFilter(config.FREQUENCY_NAME, t,
                                             config.FREQUENCY_STATUS)
       ELSE /\ pc = "exited"
            /\ error = [type |-> "ValueError", what |-> "unsupported_type",
                        prop_type |-> t,
                        supported |-> <<"rich_text", "select", "multi_select">>]

\* a single value against a select field: the bare equals condition
C8_Witness ==
    /\ pc = "fetching"
    /\ config.FREQUENCY_STATUS = << <<"a">> >>
    /\ query.filter = [property |-> <<"F">>, select |-> [equals |-> <<"a">>]]

\* C9: the first query has page size 100 and no cursor; every later query
\* has the filter and page size of the first and the next_cursor of the
\* response before it, and is issued when every record received has had its
\* update attempt; no query follows a response with has_more false, and
\* nothing follows the summary.
C9_CursorProtocol ==
    /\ [](/\ Len(QueryOps) >= 1 =>
                /\ QueryOps[1].args.page_size = 100
                /\ ~HasKey(QueryOps[1].args, "start_cursor")
          /\ \A i \in 2..Len(QueryOps) :
                /\ QueryOps[i].args.filter = QueryOps[1].args.filter
                /\ QueryOps[i].args.page_size = QueryOps[1].args.page_size
                /\ QueryOps[i].args.database_id = QueryOps[1].args.database_id
                /\ HasKey(QueryOps[i].args, "start_cursor")
                /\ hist[i - 1].has_more
                /\ QueryOps[i].args.start_cursor = hist[i - 1].next_cursor
          /\ \A i \in 1..(Len(hist) - 1) : hist[i].has_more)
    /\ [][fetches' = fetches + 1 => UpdateIds = seen]_vars
    /\ [][(hist # <<>> /\ ~hist[Len(hist)].has_more) =>
             (fetches' = fetches /\ Len(UpdateOps') <= Len(seen))]_vars
    /\ [][summary.logged => ops' = ops]_vars

\* a second query was issued with the cursor of the first response
C9_Witness ==
    /\ Len(QueryOps) = 2
    /\ Len(hist) = 2
    /\ hist[1].len = 2
    /\ QueryOps[2].args.start_cursor = Cursor(1)
    /\ summary.logged

\* C10: the records whose update was attempted are, in order and without
\* repetition, the records received up to the current one; 0 <= success <=
\* total throughout; when the summary is logged every record received had
\* its attempt and total = successful + rejected.
C10_EveryRecordOnce ==
    /\ UpdateIds = SubSeq(seen, 1, Len(UpdateIds))
    /\ success <= total
    /\ success + rejected <= total
    /\ pc = "draining" =>
          Len(UpdateIds) = Len(seen) - Len(response.results) + idx - 1
    /\ summary.logged =>
          /\ UpdateIds = seen
          /\ Cardinality(Range(seen)) = Len(seen)
          /\ total = success + rejected
          /\ total = Len(seen)

\* two full pages, each record attempted, one of them rejected
C10_Witness ==
    /\ summary.logged
    /\ Len(seen) = 4
    /\ seen = << <<1, 1>>, <<1, 2>>, <<2, 1>>, <<2, 2>> >>
    /\ rejected = 1
    /\ success = 3

====
